---------------------------- MODULE Spec2Model ----------------------------
(***************************************************************************)
(* Model of py_services/feature_extractor.py: the ballistic feature        *)
(* extraction pipeline (calculate_ballistic_features), its two detectors,  *)
(* the path front end (extract_features) and the two adapters (the         *)
(* /extract endpoint and the command line).                                *)
(*                                                                         *)
(* OpenCV / numpy calls are library code: what they compute from the       *)
(* pixels (which codec parses the bytes, whether a contour exists, which   *)
(* circles and segments the Hough searches report, whether a library call  *)
(* throws) is part of the drawn input.  What the repository's code does    *)
(* with those results (guards, rescaling, exception handling, the shape    *)
(* of the returned record) is translated statement by statement.           *)
(***************************************************************************)
EXTENDS Integers, Sequences, FiniteSets, TLC

\* image, req, resp, pc: one call on one image.  inv: the invocations of
\* calculate_ballistic_features whose stages run as separate steps.  perf: one
\* run of performance_test.py's run_comprehensive_test and its monitor thread.
VARIABLES image, req, resp, pc, inv, perf

vars == <<image, req, resp, pc, inv, perf>>

-----------------------------------------------------------------------------
(* Program constants *)

\* feature_extractor.py:211  img.shape[0] > 10000 or img.shape[1] > 10000
GlobalMaxDim == 10000
\* feature_extractor.py:31   gray_img.shape[0] > 2000 or gray_img.shape[1] > 2000
FiringPinMaxDim == 2000
\* feature_extractor.py:105  gray_img.shape[0] > 1500 or gray_img.shape[1] > 1500
StriationMaxDim == 1500
\* feature_extractor.py:265  image.shape[0] > 1000 or image.shape[1] > 1000
LbpMaxDim == 1000
\* feature_extractor.py:387  file_size_mb > 20
MaxSizeMB == 20
\* feature_extractor.py:384  len(image_data) / (1024 * 1024)
BytesPerMB == 1048576
\* feature_extractor.py:232  [0.0] * 7 ; cv2.HuMoments returns 7 values
NumHu == 7
\* feature_extractor.py:249  np.abs(hu_moments) > 1e-9, as a decimal exponent
HuEpsExp == -9

-----------------------------------------------------------------------------
(* Arithmetic helpers *)

Max(a, b) == IF a >= b THEN a ELSE b

RECURSIVE Gcd(_, _)
Gcd(a, b) == IF b = 0 THEN a ELSE Gcd(b, a % b)

\* A Python float that is a ratio of two integers, kept exact: <<n, d>>, d > 0,
\* in lowest terms.
Rat(n, d) ==
    LET g == Gcd(IF n < 0 THEN -n ELSE n, d)
    IN  IF n = 0 THEN <<0, 1>> ELSE <<n \div g, d \div g>>

RatZero == <<0, 1>>

RECURSIVE SumSeq(_)
SumSeq(s) == IF s = <<>> THEN 0 ELSE Head(s) + SumSeq(Tail(s))

\* IEEE-754 double evaluation of int(d * (T / m)) for the triples <<T, m, d>>
\* the model draws: when d*T/m is an integer the double product can land just
\* below it and int() then truncates to one less.  These are the triples for
\* which CPython does so.
RoundsBelow ==
    { <<2000, 2281, 2281>>, <<1000, 2281, 2281>>, <<1500, 10001, 10001>> }

\* int(d * scale) with scale = min(T / h, T / w) = T / max(h, w)
ScaleDim(d, T, m) ==
    LET q == (d * T) \div m
    IN  IF <<T, m, d>> \in RoundsBelow THEN q - 1 ELSE q


RatAdd(a, b) == Rat(a[1] * b[2] + b[1] * a[2], a[2] * b[2])

RECURSIVE RatSum(_)
RatSum(s) == IF s = <<>> THEN RatZero ELSE RatAdd(Head(s), RatSum(Tail(s)))

\* np.mean of a non-empty list of floats
RatMean(s) == LET t == RatSum(s) IN Rat(t[1], t[2] * Len(s))

\* DivByScale with the scale applied the wrong way round (x * scale_factor)
DivByScaleMultiplies(x, scale) == Rat(x * scale[1], scale[2])

\* x / scale_factor for an integer x
DivByScale(x, scale) == Rat(x * scale[2], scale[1])

\* x * scale_factor for a float x
RatMul(a, b) == Rat(a[1] * b[1], a[2] * b[2])

-----------------------------------------------------------------------------
(* Resizing: the pattern shared by lines 31-37, 105-111, 211-217, 265-268 *)

\* cv2.resize(img, (new_w, new_h), ...) raises cv2.error for an empty target size
ResizeRaises(new_h, new_w) == new_h <= 0 \/ new_w <= 0

\* The stage's own downscale of a raster <<h, w>> above threshold T:
\* [resized, raises, h, w, scale]
Downscale(h, w, T) ==
    IF h > T \/ w > T
    THEN LET m     == Max(h, w)
             new_h == ScaleDim(h, T, m)
             new_w == ScaleDim(w, T, m)
         IN  [resized |-> TRUE, raises |-> ResizeRaises(new_h, new_w),
              h |-> new_h, w |-> new_w, scale |-> Rat(T, m)]
    ELSE [resized |-> FALSE, raises |-> FALSE, h |-> h, w |-> w, scale |-> <<1, 1>>]

-----------------------------------------------------------------------------
(* detect_firing_pin_marks, lines 26-98 *)

FiringPinZero ==
    [num_circular_marks |-> 0, avg_mark_radius |-> RatZero,
     mark_positions |-> <<>>, mark_intensities |-> <<>>]

\* lines 69-76: a circle found on the (possibly downscaled) raster, scaled back
MarkPosition(c, scale_factor) ==
    <<DivByScale(c.x, scale_factor), DivByScale(c.y, scale_factor)>>

MarkRadius(c, scale_factor) == DivByScale(c.r, scale_factor)

\* DetectFiringPinMarks whose except branch returns the dict of line 54 as far
\* as it was filled in (the count of line 63 set, the lists still empty)
DetectFiringPinMarksPartial(gray, img) ==
    LET ds == Downscale(gray[1], gray[2], FiringPinMaxDim)
        scale_factor == ds.scale
        circles == img.circles
        radii == [k \in 1..Len(circles) |-> MarkRadius(circles[k], scale_factor)]
        positions == [k \in 1..Len(circles) |-> MarkPosition(circles[k], scale_factor)]
        intensities == [k \in 1..Len(circles) |-> circles[k].i]
    IN  IF ds.raises \/ img.fpFault
        THEN [FiringPinZero EXCEPT !.num_circular_marks = Len(circles)]
        ELSE IF circles = <<>>
        THEN FiringPinZero
        ELSE [num_circular_marks |-> Len(circles),
              avg_mark_radius    |-> RatMean(radii),
              mark_positions     |-> positions,
              mark_intensities   |-> intensities]

\* gray = <<h, w>>; img carries what the library calls report for this raster:
\* fpFault (GaussianBlur / HoughCircles / cv2.circle / cv2.mean throws) and
\* circles, the rounded rows of cv2.HoughCircles (<<>> for None)
DetectFiringPinMarks(gray, img) ==
    LET ds == Downscale(gray[1], gray[2], FiringPinMaxDim)
        scale_factor == ds.scale
        circles == img.circles
        radii == [k \in 1..Len(circles) |-> MarkRadius(circles[k], scale_factor)]
        positions == [k \in 1..Len(circles) |-> MarkPosition(circles[k], scale_factor)]
        intensities == [k \in 1..Len(circles) |-> circles[k].i]
    IN  IF ds.raises \/ img.fpFault
        THEN FiringPinZero                               \* except Exception, 91-98
        ELSE IF circles = <<>>
        THEN FiringPinZero                               \* circles is None, 54-59
        ELSE [num_circular_marks |-> Len(circles),
              avg_mark_radius    |-> RatMean(radii),
              mark_positions     |-> positions,
              mark_intensities   |-> intensities]

-----------------------------------------------------------------------------
(* detect_striation_patterns, lines 100-191 *)

NumDirBins == 18

StriationZero ==
    [num_striation_lines |-> 0, dominant_directions |-> <<>>,
     avg_line_length |-> RatZero, striation_density |-> RatZero,
     parallelism_score |-> RatZero]

\* line 125: direction = np.abs(direction), on a direction in degrees as
\* np.arctan2 returns it, -180..180
FoldDirection(deg) == IF deg < 0 THEN 0 - deg ELSE deg

\* the array direction after line 125, one entry per entry of grads
FoldedDirections(grads) == [k \in 1..Len(grads) |-> FoldDirection(grads[k].deg)]

\* line 128: the bin (1-based) np.histogram(bins=18, range=(0, pi)) counts a
\* folded direction in: 18 bins of 10 degrees, the last one closed at 180
DirBin(d) == IF d >= 10 * NumDirBins THEN NumDirBins ELSE d \div 10 + 1

\* lines 122-128: the histogram of the folded directions.  grads lists the
\* directions of arctan2(grad_y, grad_x) with the number of pixels that have each.
DirectionHistogram(grads) ==
    [b \in 1..NumDirBins |->
        SumSeq([k \in 1..Len(grads) |->
                  IF DirBin(FoldDirection(grads[k].deg)) = b
                  THEN grads[k].count ELSE 0])]

RECURSIVE MaxSeq(_)
MaxSeq(s) == IF s = <<>> THEN 0 ELSE Max(Head(s), MaxSeq(Tail(s)))

\* DominantFrom with count >= threshold for count > threshold
RECURSIVE DominantFromAtLeast(_, _, _)
DominantFromAtLeast(hist, i, peak) ==
    IF i > Len(hist) THEN <<>>
    ELSE (IF 10 * hist[i] >= 3 * peak THEN <<10 * (i - 1) + 5>> ELSE <<>>)
         \o DominantFromAtLeast(hist, i + 1, peak)

\* lines 131-137: centers, in degrees, of the bins above 30% of the peak.
\* Bin i (1-based) spans [(i-1)*pi/18, i*pi/18): its center is 10*(i-1)+5 degrees.
RECURSIVE DominantFrom(_, _, _)
DominantFrom(hist, i, peak) ==
    IF i > Len(hist) THEN <<>>
    ELSE (IF 10 * hist[i] > 3 * peak THEN <<10 * (i - 1) + 5>> ELSE <<>>)
         \o DominantFrom(hist, i + 1, peak)

DominantDirections(hist) == DominantFrom(hist, 1, MaxSeq(hist))

\* Integer square root, exact on the segments the model draws (line 166)
RECURSIVE ISqrtFrom(_, _)
ISqrtFrom(n, k) == IF (k + 1) * (k + 1) > n THEN k ELSE ISqrtFrom(n, k + 1)

SegLength(l) ==
    ISqrtFrom((l.x2 - l.x1) * (l.x2 - l.x1) + (l.y2 - l.y1) * (l.y2 - l.y1), 0)

\* line 167: np.arctan2(y2-y1, x2-x1) * 180 / pi, on the directions the model draws
SegAngle(l) ==
    LET dx == l.x2 - l.x1
        dy == l.y2 - l.y1
    IN  CASE dy = 0 /\ dx >= 0 -> 0
          [] dy = 0 /\ dx < 0  -> 180
          [] dx = 0 /\ dy > 0  -> 90
          [] dx = 0 /\ dy < 0  -> -90
          [] dx = dy /\ dx > 0 -> 45
          [] dx = dy /\ dx < 0 -> -135
          [] dx = -dy /\ dx > 0 -> -45
          [] OTHER             -> 135

\* ParallelismOf with the sample variance (ddof = 1) for np.var's population one
ParallelismOfSampleVar(angles) ==
    LET k  == Len(angles)
        s1 == SumSeq(angles)
        s2 == SumSeq([j \in 1..k |-> angles[j] * angles[j]])
    IN  Rat(100 * k * (k - 1), 100 * k * (k - 1) + (k * s2 - s1 * s1))

\* line 178-179: 1.0 / (1.0 + np.var(line_angles) / 100), np.var the population
\* variance (k * sum(a^2) - sum(a)^2) / k^2
ParallelismOf(angles) ==
    LET k  == Len(angles)
        s1 == SumSeq(angles)
        s2 == SumSeq([j \in 1..k |-> angles[j] * angles[j]])
    IN  Rat(100 * k * k, 100 * k * k + (k * s2 - s1 * s1))

DetectStriationPatterns(gray, img) ==
    LET ds      == Downscale(gray[1], gray[2], StriationMaxDim)
        lines   == img.lines
        lengths == [k \in 1..Len(lines) |-> SegLength(lines[k])]
        angles  == [k \in 1..Len(lines) |-> SegAngle(lines[k])]
        base    == [num_striation_lines |-> 0,
                    dominant_directions |->
                        DominantDirections(DirectionHistogram(img.grads)),
                    avg_line_length |-> RatZero, striation_density |-> RatZero,
                    parallelism_score |-> RatZero]
    IN  IF ds.raises \/ img.stFault
        THEN StriationZero                               \* except Exception, 183-191
        ELSE IF lines = <<>>
        THEN base                                        \* lines is None
        ELSE [base EXCEPT
                !.num_striation_lines = Len(lines),
                !.avg_line_length     = Rat(SumSeq(lengths), Len(lines)),
                !.striation_density   = Rat(Len(lines) * 10000, ds.h * ds.w),
                !.parallelism_score   =
                    IF Len(angles) > 1 THEN ParallelismOf(angles) ELSE RatZero]

-----------------------------------------------------------------------------
(* calculate_ballistic_features, lines 193-309 *)

NoFeatures == [none |-> TRUE]

\* What a call hands back to its caller: a returned dict or a raised exception.
\* trace is not part of it: it records, for the properties below, what ran inside
\* the call (decoders tried, stages started, whether line 217 resized, the shape
\* of the grayscale raster of line 220) and holds
\* only values that were local to the call.
Returned(features, trace) ==
    [raised |-> FALSE, exc |-> "none", features |-> features, trace |-> trace]

Raised(exc, trace) ==
    [raised |-> TRUE, exc |-> exc, features |-> NoFeatures, trace |-> trace]

Trace(decoders, stages, resized, gray) ==
    [decoders |-> decoders, stages |-> stages, resized |-> resized, gray |-> gray]

\* no grayscale raster was made
NoGray == <<0, 0>>

\* DecodeBytes without the raise of line 208: the failed fallback is swallowed
DecodeBytesSwallows(img) ==
    IF img.codec = "generic"
    THEN [ok |-> TRUE, tried |-> <<"imdecode">>]
    ELSE [ok |-> TRUE, tried |-> <<"imdecode", "rawpy">>]

\* lines 196-208: cv2.imdecode, then rawpy when imdecode returned None.
\* img.codec names the decoder able to parse the bytes; "empty" is a buffer of
\* zero bytes, on which cv2.imdecode raises cv2.error instead of returning None.
DecodeBytes(img) ==
    IF img.codec = "generic"
    THEN [ok |-> TRUE, tried |-> <<"imdecode">>]
    ELSE IF img.codec = "empty"
    THEN [ok |-> FALSE, tried |-> <<"imdecode">>]          \* to line 307
    ELSE IF img.rawpyInstalled /\ img.codec = "raw_only"
    THEN [ok |-> TRUE, tried |-> <<"imdecode", "rawpy">>]
    ELSE [ok |-> FALSE, tried |-> <<"imdecode", "rawpy">>]   \* line 208

\* lines 248-252 on one Hu invariant h = s * 10^e (s its sign, 0 for h = 0):
\* -sign(h) * log10(|h|) where |h| > 1e-9, else 0
HuTransform(h) ==
    IF h.s # 0 /\ h.e > HuEpsExp
    THEN [finite |-> TRUE, v |-> (0 - h.s) * h.e]
    ELSE [finite |-> TRUE, v |-> 0]

HuZero == [finite |-> TRUE, v |-> 0]

\* lines 222-252: the shape stage.  kind is the Python type hu_moments is bound to.
ShapeStage(img) ==
    IF ~img.contours
    THEN [kind |-> "list", hu |-> [k \in 1..NumHu |-> HuZero],        \* 230-234
          contour_area |-> 0, contour_len |-> 0]
    ELSE [kind |-> "ndarray", hu |-> [k \in 1..NumHu |-> HuTransform(img.hu[k])],
          contour_area |-> img.area, contour_len |-> img.perimeter]

\* TolistRaises had line 232 bound hu_moments to an ndarray (np.zeros(7))
TolistNeverRaises(shape) == FALSE

\* line 297: hu_moments.tolist() exists on an ndarray, not on a list
TolistRaises(shape) == shape.kind = "list"

RECURSIVE GcdSeq(_)
GcdSeq(s) == IF s = <<>> THEN 0 ELSE Gcd(Head(s), GcdSeq(Tail(s)))

\* line 293: np.sum(lbp_hist**2) / (np.sum(lbp_hist)**2) if np.sum(lbp_hist) > 0
\* else 0.  The counts are divided by their gcd first, which leaves the quotient
\* unchanged and keeps the squares in range.
LbpUniformity(hist) ==
    LET g == GcdSeq(hist)
        c == [k \in 1..Len(hist) |-> IF g = 0 THEN 0 ELSE hist[k] \div g]
        t == SumSeq(c)
    IN  IF SumSeq(hist) > 0
        THEN Rat(SumSeq([k \in 1..Len(c) |-> c[k] * c[k]]), t * t)
        ELSE RatZero

NumLbpBins == 16

\* lines 262-292: calculate_lbp_fast and its histogram.  img.lbpBins is the number
\* of LBP codes the interior pixels fall into, equally often (1: every neighbour
\* >= its center, code 15, as in a flat image).
LbpStage(gray, img) ==
    LET ds == Downscale(gray[1], gray[2], LbpMaxDim)
        n  == (ds.h - 2) * (ds.w - 2)
        hist == [k \in 1..NumLbpBins |->
                   IF k = NumLbpBins THEN n - (img.lbpBins - 1) * (n \div img.lbpBins)
                   ELSE IF k < img.lbpBins THEN n \div img.lbpBins
                   ELSE 0]
    IN  IF ds.raises \/ ds.h - 2 < 0 \/ ds.w - 2 < 0     \* cv2.resize, np.zeros raise
        THEN [raises |-> TRUE, lbp_uniformity |-> RatZero]
        ELSE [raises |-> FALSE, lbp_uniformity |-> LbpUniformity(hist)]

\* lines 296-303
Features(shape, fp, st, lbp) ==
    [hu_moments         |-> shape.hu,
     contour_area       |-> shape.contour_area,
     contour_len        |-> shape.contour_len,
     lbp_uniformity     |-> lbp.lbp_uniformity,
     firing_pin_marks   |-> fp,
     striation_patterns |-> st]

\* GlobalNormalize with max() for min() at line 214: the smaller side is fitted
GlobalNormalizeFitsSmaller(h, w) ==
    IF h > GlobalMaxDim \/ w > GlobalMaxDim
    THEN LET m     == IF h <= w THEN h ELSE w
             new_h == (h * GlobalMaxDim) \div m
             new_w == (w * GlobalMaxDim) \div m
         IN  [resized |-> TRUE, raises |-> ResizeRaises(new_h, new_w),
              h |-> new_h, w |-> new_w, scale |-> Rat(GlobalMaxDim, m)]
    ELSE [resized |-> FALSE, raises |-> FALSE, h |-> h, w |-> w, scale |-> <<1, 1>>]

\* lines 210-218: the decoded raster is resized when a side exceeds 10000 px
GlobalNormalize(h, w) == Downscale(h, w, GlobalMaxDim)

CalculateBallisticFeatures(img) ==
    LET dec  == DecodeBytes(img)
        norm == GlobalNormalize(img.h, img.w)
        gray == <<norm.h, norm.w>>
        shape == ShapeStage(img)
        fp   == DetectFiringPinMarks(gray, img)
        st   == DetectStriationPatterns(gray, img)
        lbp  == LbpStage(gray, img)
        FEE  == "FeatureExtractionError"                 \* lines 307-309
    IN  IF ~dec.ok
        THEN Raised(FEE, Trace(dec.tried, <<>>, FALSE, NoGray))
        ELSE IF norm.raises
        THEN Raised(FEE, Trace(dec.tried, <<"normalize">>, FALSE, NoGray))
        ELSE IF lbp.raises
        THEN Raised(FEE, Trace(dec.tried,
                 <<"normalize", "shape", "firing_pin", "striation", "texture">>,
                 norm.resized, gray))
        ELSE IF TolistRaises(shape)
        THEN Raised(FEE, Trace(dec.tried,
                 <<"normalize", "shape", "firing_pin", "striation", "texture",
                   "aggregate">>, norm.resized, gray))
        ELSE Returned(Features(shape, fp, st, lbp),
                 Trace(dec.tried,
                 <<"normalize", "shape", "firing_pin", "striation", "texture",
                   "aggregate">>, norm.resized, gray))

-----------------------------------------------------------------------------
(* extract_features, lines 311-367 *)

TiffExts == {".tif", ".tiff"}
RawExts  == {".raw", ".cr2", ".nef", ".arw", ".dng"}

\* DecodePath as a chain: PIL after imread, then rawpy after PIL, whatever the
\* extension
DecodePathChained(path, img) ==
    IF img.codec = "generic"
    THEN [ok |-> TRUE, tried |-> <<"imread">>]
    ELSE IF img.codec = "tiff_only"
    THEN [ok |-> TRUE, tried |-> <<"imread", "PIL">>]
    ELSE [ok |-> img.rawpyInstalled /\ img.codec = "raw_only",
          tried |-> <<"imread", "PIL", "rawpy">>]

\* lines 322-352: cv2.imread, then PIL for a TIFF extension or rawpy for a raw one
DecodePath(path, img) ==
    IF img.codec = "generic"
    THEN [ok |-> TRUE, tried |-> <<"imread">>]
    ELSE IF path.ext \in TiffExts
    THEN [ok |-> img.codec = "tiff_only", tried |-> <<"imread", "PIL">>]
    ELSE IF path.ext \in RawExts
    THEN [ok |-> img.rawpyInstalled /\ img.codec = "raw_only",
          tried |-> <<"imread", "rawpy">>]
    ELSE [ok |-> FALSE, tried |-> <<"imread">>]

\* ExtractFeatures without the check of line 315 and the handler of lines
\* 365-367: os.path.getsize raises FileNotFoundError for a missing file, and an
\* undecoded image reaches cv2.imencode as None
ExtractFeaturesUnguarded(path, img) ==
    LET dec == DecodePath(path, img)
        out == CalculateBallisticFeatures([img EXCEPT !.codec = "generic"])
    IN  IF ~path.exists
        THEN Raised("FileNotFoundError", Trace(<<>>, <<>>, FALSE, NoGray))
        ELSE IF ~dec.ok
        THEN Raised("cv2.error", Trace(dec.tried, <<>>, FALSE, NoGray))
        ELSE [out EXCEPT !.trace.decoders = dec.tried \o @]

\* path = [exists, ext, fileSize]; img describes the file's content
ExtractFeatures(path, img) ==
    LET dec == DecodePath(path, img)
        \* lines 358-362: the decoded raster, PNG-encoded, goes to the byte pipeline
        out == CalculateBallisticFeatures([img EXCEPT !.codec = "generic"])
        FEE == "FeatureExtractionError"                  \* lines 365-367
    IN  IF ~path.exists
        THEN Raised(FEE, Trace(<<>>, <<>>, FALSE, NoGray))       \* line 316
        ELSE IF ~dec.ok
        THEN Raised(FEE, Trace(dec.tried, <<>>, FALSE, NoGray))  \* lines 346, 349, 352
        ELSE [out EXCEPT !.trace.decoders = dec.tried \o @]

-----------------------------------------------------------------------------
(* extract_features_endpoint, lines 369-418 *)

TooLarge(size) == size > MaxSizeMB * BytesPerMB          \* lines 384, 387

\* ErrorBody with a status field beside the message
ErrorBodyWithStatus(msg) == [error |-> msg, status |-> "error"]

ErrorBody(msg) == [error |-> msg]

\* form = [hasImage, size]: whether the request has an 'image' part and the
\* number of bytes file.read() returns
ExtractFeaturesEndpoint(form, img) ==
    LET out == CalculateBallisticFeatures(img)
    IN  IF ~form.hasImage
        THEN [status |-> 400, body |-> ErrorBody("no_image"),
              trace |-> Trace(<<>>, <<>>, FALSE, NoGray)]
        ELSE IF TooLarge(form.size)
        THEN [status |-> 413, body |-> ErrorBody("too_large"),
              trace |-> Trace(<<>>, <<>>, FALSE, NoGray)]
        ELSE IF out.raised
        THEN [status |-> 500, body |-> ErrorBody(out.exc), trace |-> out.trace]
        ELSE [status |-> 200,
              body |-> [hu_moments         |-> out.features.hu_moments,
                        contour_area       |-> out.features.contour_area,
                        contour_len        |-> out.features.contour_len,
                        lbp_uniformity     |-> out.features.lbp_uniformity,
                        firing_pin_marks   |-> out.features.firing_pin_marks,
                        striation_patterns |-> out.features.striation_patterns,
                        metadata           |-> [filename |-> "filename",
                                                content_type |-> "content_type",
                                                file_size_mb |-> Rat(form.size, BytesPerMB)],
                        status             |-> "success"],
              trace |-> out.trace]

-----------------------------------------------------------------------------
(* __main__, command-line mode, lines 455-514 *)

\* lines 469-481: one {x, y, radius} per mark position, radius the average radius
FormatFiringPin(fp) ==
    [k \in 1..Len(fp.mark_positions) |->
        [x |-> fp.mark_positions[k][1], y |-> fp.mark_positions[k][2],
         radius |-> fp.avg_mark_radius]]

\* lines 484-493: built from the key "patterns", which detect_striation_patterns
\* never sets
FormatStriation(st) ==
    IF "patterns" \in DOMAIN st THEN st.patterns ELSE <<>>

CliMain(path, img) ==
    LET out == ExtractFeatures(path, img)
    IN  IF out.raised
        THEN [exit |-> 1, body |-> ErrorBody(out.exc), trace |-> out.trace]  \* 511-514
        ELSE [exit |-> 0,
              body |-> [hu_moments         |-> out.features.hu_moments,
                        contour_area       |-> out.features.contour_area,
                        contour_len        |-> out.features.contour_len,
                        lbp_uniformity     |-> out.features.lbp_uniformity,
                        firing_pin_marks   |-> FormatFiringPin(out.features.firing_pin_marks),
                        striation_patterns |-> FormatStriation(out.features.striation_patterns),
                        filename           |-> "basename",
                        content_type       |-> IF path.ext \in TiffExts
                                               THEN "image/tiff" ELSE "image/jpeg",
                        \* int((getsize / 2^20) * 2^20): both steps are exact
                        file_size          |-> path.fileSize],
              trace |-> out.trace]

-----------------------------------------------------------------------------
(* The inputs the model draws *)

\* Bounds of the model: how many circles / segments the Hough searches report
MaxMarks == 2
MaxSegments == 3

\* <<height, width>> of the decoded raster
DimPairs ==
    { <<100, 100>>, <<2, 2>>, <<1, 1>>, <<1200, 900>>, <<2281, 1000>>,
      <<3000, 2000>>, <<1, 3000>>, <<10000, 10000>>, <<10001, 8000>>, <<20001, 1>>,
      <<12000, 20000>>, <<6000, 3>> }

\* Raw Hu invariants s * 10^e as cv2.HuMoments may return them
HuA == << [s |-> 1, e |-> -1], [s |-> 1, e |-> -3], [s |-> 1, e |-> -7],
          [s |-> -1, e |-> -8], [s |-> 1, e |-> -9], [s |-> -1, e |-> -12],
          [s |-> 0, e |-> 0] >>
HuB == << [s |-> 1, e |-> -2], [s |-> 1, e |-> -4], [s |-> -1, e |-> -6],
          [s |-> 1, e |-> -10], [s |-> -1, e |-> -9], [s |-> 0, e |-> 0],
          [s |-> -1, e |-> -2] >>
HuNone == [k \in 1..NumHu |-> [s |-> 0, e |-> 0]]

\* Rounded rows of cv2.HoughCircles (x, y, r) with the disk's mean intensity i
CircleSeq ==
    << [x |-> 40, y |-> 30, r |-> 10, i |-> 200],
       [x |-> 1, y |-> 2, r |-> 3, i |-> 17],
       [x |-> 60, y |-> 90, r |-> 50, i |-> 90],
       [x |-> 7, y |-> 7, r |-> 7, i |-> 255] >>

\* Rows of cv2.HoughLinesP
LineSeq ==
    << [x1 |-> 0, y1 |-> 0, x2 |-> 30, y2 |-> 0],
       [x1 |-> 10, y1 |-> 0, x2 |-> 50, y2 |-> 0],
       [x1 |-> 5, y1 |-> 5, x2 |-> 5, y2 |-> 45],
       [x1 |-> 0, y1 |-> 0, x2 |-> 0, y2 |-> 20] >>

\* a raster with room for the circles, segments and edges drawn here
RoomForMarks(h, w) == h >= 100 /\ w >= 100

\* Directions of np.arctan2(grad_y, grad_x) in degrees, each with the number of
\* pixels that have it (in units of a common number of pixels).  No gradient:
\* arctan2(0, 0) = 0 everywhere.
GradsFlat == << [deg |-> 0, count |-> 10] >>
\* Edges of several orientations and of both polarities
GradsTwo ==
    << [deg |-> 0, count |-> 10], [deg |-> 95, count |-> 2], [deg |-> -95, count |-> 2],
       [deg |-> 45, count |-> 3], [deg |-> -135, count |-> 1], [deg |-> 180, count |-> 1] >>

\* A flat raster: the adaptive threshold leaves no foreground, so no contour;
\* no gradient, no edge, no circle; every LBP code is 15.
FlatContents ==
    { [h |-> d[1], w |-> d[2], flat |-> TRUE, contours |-> FALSE, hu |-> HuNone,
       area |-> 0, perimeter |-> 0, fpFault |-> ff, stFault |-> sf,
       circles |-> <<>>, lines |-> <<>>, grads |-> GradsFlat, lbpBins |-> 1] :
      d \in DimPairs, ff \in BOOLEAN, sf \in BOOLEAN }

ShapeCases ==
    { [contours |-> FALSE, hu |-> HuNone, area |-> 0, perimeter |-> 0],
      [contours |-> TRUE, hu |-> HuA, area |-> 400, perimeter |-> 80],
      [contours |-> TRUE, hu |-> HuB, area |-> 1, perimeter |-> 4] }

TexturedContents ==
    { [h |-> d[1], w |-> d[2], flat |-> FALSE, contours |-> sc.contours,
       hu |-> sc.hu, area |-> sc.area, perimeter |-> sc.perimeter,
       fpFault |-> ff, stFault |-> sf,
       circles |-> SubSeq(CircleSeq, 1, IF RoomForMarks(d[1], d[2]) THEN nc ELSE 0),
       lines |-> SubSeq(LineSeq, 1, IF RoomForMarks(d[1], d[2]) THEN nl ELSE 0),
       grads |-> IF RoomForMarks(d[1], d[2]) THEN gr ELSE GradsFlat,
       lbpBins |-> 2] :
      d \in DimPairs, sc \in ShapeCases, ff \in BOOLEAN, sf \in BOOLEAN,
      nc \in 0..MaxMarks, nl \in 0..MaxSegments, gr \in {GradsFlat, GradsTwo} }

Contents == FlatContents \cup TexturedContents

\* Bytes no decoder available parses: what they would show is never looked at
Undecodable == CHOOSE c \in FlatContents : c.h = 1 /\ c.w = 1 /\ ~c.fpFault /\ ~c.stFault

WithCodec(c, codec, installed) ==
    [h |-> c.h, w |-> c.w, flat |-> c.flat, contours |-> c.contours, hu |-> c.hu,
     area |-> c.area, perimeter |-> c.perimeter, fpFault |-> c.fpFault,
     stFault |-> c.stFault, circles |-> c.circles, lines |-> c.lines,
     grads |-> c.grads, lbpBins |-> c.lbpBins,
     codec |-> codec, rawpyInstalled |-> installed]

Images ==
    { WithCodec(c, "generic", TRUE) : c \in Contents }
    \cup { WithCodec(c, "raw_only", TRUE) : c \in Contents }
    \cup { WithCodec(c, "tiff_only", TRUE) : c \in Contents }
    \cup { WithCodec(Undecodable, "raw_only", FALSE),
           WithCodec(Undecodable, "none", FALSE),
           WithCodec(Undecodable, "none", TRUE),
           WithCodec(Undecodable, "empty", TRUE) }

SizeLimit == MaxSizeMB * BytesPerMB

Forms ==
    { [hasImage |-> FALSE, size |-> 0] }
    \cup { [hasImage |-> TRUE, size |-> n] : n \in {0, 1024, SizeLimit, SizeLimit + 1} }

Paths ==
    { [exists |-> FALSE, ext |-> ".png", fileSize |-> 0] }
    \cup { [exists |-> TRUE, ext |-> e, fileSize |-> n] :
           e \in {".png", ".tif", ".cr2", ".txt"}, n \in {0, 1024, SizeLimit + 1} }

\* the number of bytes read is 0 exactly for the empty payload
SizeFits(img, size) == (img.codec = "empty") <=> (size = 0)

-----------------------------------------------------------------------------
(* State machine: one request per behaviour, on the drawn image *)

NoReq  == [op |-> "none"]
NoResp == [none |-> TRUE]
NoInv  == <<>>
NoPerf == [none |-> TRUE]

Init ==
    /\ image \in Images
    /\ req = NoReq
    /\ resp = NoResp
    /\ pc = "ready"
    /\ inv = NoInv
    /\ perf = NoPerf

\* a direct call of calculate_ballistic_features(image_data)
CallCalculate ==
    /\ pc = "ready"
    /\ req' = [op |-> "calculate"]
    /\ resp' = CalculateBallisticFeatures(image)
    /\ pc' = "done"
    /\ UNCHANGED <<image, inv, perf>>

\* a direct call of extract_features(image_path)
CallExtractFeatures ==
    /\ pc = "ready"
    /\ \E path \in Paths :
          /\ path.exists => SizeFits(image, path.fileSize)
          /\ req' = [op |-> "extract_features", path |-> path]
          /\ resp' = ExtractFeatures(path, image)
    /\ pc' = "done"
    /\ UNCHANGED <<image, inv, perf>>

\* POST /extract
HandleExtract ==
    /\ pc = "ready"
    /\ \E form \in Forms :
          /\ form.hasImage => SizeFits(image, form.size)
          /\ req' = [op |-> "endpoint", form |-> form]
          /\ resp' = ExtractFeaturesEndpoint(form, image)
    /\ pc' = "done"
    /\ UNCHANGED <<image, inv, perf>>

\* python feature_extractor.py <image_path>
RunCli ==
    /\ pc = "ready"
    /\ \E path \in Paths :
          /\ path.exists => SizeFits(image, path.fileSize)
          /\ req' = [op |-> "cli", path |-> path]
          /\ resp' = CliMain(path, image)
    /\ pc' = "done"
    /\ UNCHANGED <<image, inv, perf>>

\* a direct call of detect_firing_pin_marks on the image as a grayscale raster
CallDetectFiringPin ==
    /\ pc = "ready"
    /\ req' = [op |-> "firing_pin"]
    /\ resp' = [result |-> DetectFiringPinMarks(<<image.h, image.w>>, image)]
    /\ pc' = "done"
    /\ UNCHANGED <<image, inv, perf>>

\* a direct call of detect_striation_patterns on the image as a grayscale raster;
\* direction and hist are the call's local arrays of those names, kept for the
\* properties
CallDetectStriation ==
    /\ pc = "ready"
    /\ req' = [op |-> "striation"]
    /\ resp' = [result |-> DetectStriationPatterns(<<image.h, image.w>>, image),
                direction |-> FoldedDirections(image.grads),
                hist |-> DirectionHistogram(image.grads)]
    /\ pc' = "done"
    /\ UNCHANGED <<image, inv, perf>>

Next ==
    \/ CallCalculate
    \/ CallExtractFeatures
    \/ HandleExtract
    \/ RunCli
    \/ CallDetectFiringPin
    \/ CallDetectStriation

Spec == Init /\ [][Next]_vars

-----------------------------------------------------------------------------
(* The stages of calculate_ballistic_features as separate steps: each of     *)
(* lines 222-252, 255, 258 and 262-293 reads the raster gray of line 220 and *)
(* no name another of them binds, so they are run here in every order, in    *)
(* two invocations at once.                                                  *)

Invocations == {1, 2}

StageNames == {"shape", "firing_pin", "striation", "texture"}

\* RasterAfter had the stage resized the caller's array itself
RasterAfterResizedInPlace(stage, gray) ==
    LET T  == CASE stage = "firing_pin" -> FiringPinMaxDim
                [] stage = "striation"  -> StriationMaxDim
                [] stage = "texture"    -> LbpMaxDim
                [] OTHER                -> GlobalMaxDim
        ds == Downscale(gray[1], gray[2], T)
    IN  IF ds.raises THEN gray ELSE <<ds.h, ds.w>>

\* The caller's raster after a stage ran on it.  Lines 34, 108 and 267 bind the
\* resized array to the stage's own parameter name; blur, thresh, mask, denoised
\* and lbp are new arrays; nothing is written into gray.
RasterAfter(stage, gray) == gray

\* what the stage computes from the raster it is handed
StageResult(stage, gray, img) ==
    CASE stage = "shape"      -> ShapeStage(img)
      [] stage = "firing_pin" -> DetectFiringPinMarks(gray, img)
      [] stage = "striation"  -> DetectStriationPatterns(gray, img)
      [] stage = "texture"    -> LbpStage(gray, img)

\* what the caller of calculate_ballistic_features receives
Outcome(r) == [raised |-> r.raised, exc |-> r.exc, features |-> r.features]

NoParts == <<>>

\* Decodable images: a small raster in every shape case, and rasters above the
\* stages' own size limits with a contour, a circle and a segment; and one image
\* no decoder parses
StageImages ==
    { i \in Images :
        \/ /\ i.codec = "generic" /\ ~i.fpFault /\ ~i.stFault
           /\ i.flat \/ (/\ i.hu # HuB
                         /\ RoomForMarks(i.h, i.w)
                               => /\ i.grads = GradsTwo
                                  /\ Len(i.circles) = 1 /\ Len(i.lines) = 1)
           /\ \/ <<i.h, i.w>> = <<100, 100>>
              \/ /\ <<i.h, i.w>> \in { <<3000, 2000>>, <<10001, 8000>>, <<6000, 3>> }
                 /\ i.contours
        \/ i.codec = "none" /\ i.rawpyInstalled }

InitStages ==
    /\ image = WithCodec(Undecodable, "none", FALSE)
    /\ req = NoReq
    /\ resp = NoResp
    /\ pc = "stages"
    /\ perf = NoPerf
    /\ inv \in [Invocations -> { [img |-> i, phase |-> "start", gray |-> NoGray,
                                  parts |-> NoParts, order |-> <<>>,
                                  out |-> NoResp] :
                                 i \in StageImages }]

\* lines 196-220: decode, normalize, make the grayscale raster
StartInvocation(i) ==
    LET img  == inv[i].img
        dec  == DecodeBytes(img)
        norm == GlobalNormalize(img.h, img.w)
    IN  /\ inv[i].phase = "start"
        /\ inv' = [inv EXCEPT ![i] =
                     IF ~dec.ok \/ norm.raises
                     THEN [@ EXCEPT !.phase = "done",
                             !.out = Outcome(Raised("FeatureExtractionError",
                                         Trace(dec.tried, <<>>, FALSE, NoGray)))]
                     ELSE [@ EXCEPT !.phase = "stages",
                                    !.gray = <<norm.h, norm.w>>]]
        /\ UNCHANGED <<image, req, resp, pc, perf>>

\* one stage of invocation i runs to its end on the raster as it is now; order
\* records the order the stages ran in and is read by no step
RunStage(i, stage) ==
    /\ inv[i].phase = "stages"
    /\ stage \notin DOMAIN inv[i].parts
    /\ inv' = [inv EXCEPT ![i] =
                 [@ EXCEPT !.parts = (stage :> StageResult(stage, inv[i].gray, inv[i].img))
                                        @@ inv[i].parts,
                           !.gray = RasterAfter(stage, inv[i].gray),
                           !.order = Append(@, stage)]]
    /\ UNCHANGED <<image, req, resp, pc, perf>>

ShapeStep      == \E i \in Invocations : RunStage(i, "shape")         \* 222-252
FiringPinStep  == \E i \in Invocations : RunStage(i, "firing_pin")    \* 255
StriationStep  == \E i \in Invocations : RunStage(i, "striation")     \* 258
TextureStep    == \E i \in Invocations : RunStage(i, "texture")       \* 262-293

\* lines 296-309: the join.  An exception of a stage, or of line 297, leaves the
\* call as FeatureExtractionError.
Aggregate(i) ==
    LET p == inv[i].parts
    IN  /\ inv[i].phase = "stages"
        /\ DOMAIN p = StageNames
        /\ inv' = [inv EXCEPT ![i] =
                     [@ EXCEPT !.phase = "done",
                               !.out = IF p["texture"].raises \/ TolistRaises(p["shape"])
                                       THEN Outcome(Raised("FeatureExtractionError",
                                                Trace(<<>>, <<>>, FALSE, NoGray)))
                                       ELSE Outcome(Returned(
                                                Features(p["shape"], p["firing_pin"],
                                                         p["striation"], p["texture"]),
                                                Trace(<<>>, <<>>, FALSE, NoGray)))]]
        /\ UNCHANGED <<image, req, resp, pc, perf>>

NextStages ==
    \/ \E i \in Invocations : StartInvocation(i)
    \/ ShapeStep
    \/ FiringPinStep
    \/ StriationStep
    \/ TextureStep
    \/ \E i \in Invocations : Aggregate(i)

SpecStages == InitStages /\ [][NextStages]_vars

-----------------------------------------------------------------------------
(* performance_test.py: BallisticPerformanceTest.run_comprehensive_test      *)
(* (lines 208-262) and the thread of PerformanceMonitor (lines 17-38).       *)
(* perf.main is the position of the main thread, perf.thread that of the     *)
(* monitor thread; cpu and mem are the lengths of cpu_usage and memory_usage *)

\* Bound of the model: the samples the monitor thread takes at most
MaxSamples == 2

\* how many test images the glob of lines 221-223 may find
ImageCounts == 0..3

NoStats == <<>>

InitMonitor ==
    /\ image = WithCodec(Undecodable, "none", FALSE)
    /\ req = NoReq
    /\ resp = NoResp
    /\ pc = "monitor"
    /\ inv = NoInv
    /\ perf = [main |-> "health", images |-> 0, raised |-> FALSE,
               monitoring |-> FALSE, thread |-> "none", cpu |-> 0, mem |-> 0,
               started |-> FALSE, stopped |-> FALSE, atStop |-> <<0, 0>>,
               stats |-> NoStats]

\* lines 214-218
CheckServerHealth ==
    /\ perf.main = "health"
    /\ \E healthy \in BOOLEAN :
          perf' = [perf EXCEPT !.main = IF healthy THEN "glob" ELSE "ended"]
    /\ UNCHANGED <<image, req, resp, pc, inv>>

\* lines 221-229
FindTestImages ==
    /\ perf.main = "glob"
    /\ \E n \in ImageCounts :
          perf' = [perf EXCEPT !.images = n,
                               !.main = IF n = 0 THEN "ended" ELSE "start"]
    /\ UNCHANGED <<image, req, resp, pc, inv>>

\* line 232, start_monitoring (lines 24-27); Thread.start() at line 27 raises
\* RuntimeError when no thread can be created, and line 232 is before the try
StartMonitoring ==
    /\ perf.main = "start"
    /\ \E threadStarts \in BOOLEAN :
          perf' = IF threadStarts
                  THEN [perf EXCEPT !.monitoring = TRUE, !.thread = "check",
                                    !.started = TRUE, !.main = "individual"]
                  ELSE [perf EXCEPT !.monitoring = TRUE, !.raised = TRUE,
                                    !.main = "ended"]
    /\ UNCHANGED <<image, req, resp, pc, inv>>

\* lines 239-240: the loop ends, or a call raises (line 128 is outside the try
\* of test_individual_analysis) and control goes to the finally block
IndividualTests ==
    /\ perf.main = "individual"
    /\ \E raises \in BOOLEAN :
          perf' = [perf EXCEPT !.raised = raises,
                               !.main = IF raises THEN "finally" ELSE "concurrent"]
    /\ UNCHANGED <<image, req, resp, pc, inv>>

\* lines 246-248
ConcurrentTests ==
    /\ perf.main = "concurrent"
    /\ \E raises \in BOOLEAN :
          /\ raises => perf.images >= 2
          /\ perf' = [perf EXCEPT !.raised = raises, !.main = "finally"]
    /\ UNCHANGED <<image, req, resp, pc, inv>>

\* line 252, stop_monitoring, line 30
StopMonitoringFlag ==
    /\ perf.main = "finally"
    /\ perf' = [perf EXCEPT !.monitoring = FALSE, !.main = "join"]
    /\ UNCHANGED <<image, req, resp, pc, inv>>

\* JoinMonitor that returns without waiting for the thread
JoinMonitorNoWait ==
    /\ perf.main = "join"
    /\ perf' = [perf EXCEPT !.stopped = TRUE, !.atStop = <<perf.cpu, perf.mem>>,
                            !.main = "stats"]
    /\ UNCHANGED <<image, req, resp, pc, inv>>

\* lines 31-32: join() returns when the thread has ended; stop_monitoring returns
JoinMonitor ==
    /\ perf.main = "join"
    /\ perf.thread = "terminated"
    /\ perf' = [perf EXCEPT !.stopped = TRUE, !.atStop = <<perf.cpu, perf.mem>>,
                            !.main = "stats"]
    /\ UNCHANGED <<image, req, resp, pc, inv>>

\* line 253, get_stats (lines 40-52) reads both lists; then the pending
\* exception leaves the method, or lines 255-262 run
GetStats ==
    /\ perf.main = "stats"
    /\ perf' = [perf EXCEPT !.stats = <<perf.cpu, perf.mem>>,
                            !.main = IF perf.raised THEN "ended" ELSE "report"]
    /\ UNCHANGED <<image, req, resp, pc, inv>>

\* lines 255-262
Report ==
    /\ perf.main = "report"
    /\ perf' = [perf EXCEPT !.main = "ended"]
    /\ UNCHANGED <<image, req, resp, pc, inv>>

\* line 35: while self.monitoring
MonitorCheck ==
    /\ perf.thread = "check"
    /\ perf.monitoring => perf.cpu < MaxSamples
    /\ perf' = [perf EXCEPT !.thread = IF perf.monitoring THEN "cpu" ELSE "terminated"]
    /\ UNCHANGED <<image, req, resp, pc, inv>>

\* line 36
MonitorCpu ==
    /\ perf.thread = "cpu"
    /\ perf' = [perf EXCEPT !.cpu = @ + 1, !.thread = "mem"]
    /\ UNCHANGED <<image, req, resp, pc, inv>>

\* line 37
MonitorMem ==
    /\ perf.thread = "mem"
    /\ perf' = [perf EXCEPT !.mem = @ + 1, !.thread = "sleep"]
    /\ UNCHANGED <<image, req, resp, pc, inv>>

\* line 38
MonitorSleep ==
    /\ perf.thread = "sleep"
    /\ perf' = [perf EXCEPT !.thread = "check"]
    /\ UNCHANGED <<image, req, resp, pc, inv>>

NextMonitor ==
    \/ CheckServerHealth
    \/ FindTestImages
    \/ StartMonitoring
    \/ IndividualTests
    \/ ConcurrentTests
    \/ StopMonitoringFlag
    \/ JoinMonitor
    \/ GetStats
    \/ Report
    \/ MonitorCheck
    \/ MonitorCpu
    \/ MonitorMem
    \/ MonitorSleep

SpecMonitor == InitMonitor /\ [][NextMonitor]_vars

-----------------------------------------------------------------------------
(* Properties *)

Done(op) == pc = "done" /\ req.op = op

\* some decoder of the byte pipeline parses the image's bytes
BytesDecodable(img) ==
    img.codec = "generic" \/ (img.codec = "raw_only" /\ img.rawpyInstalled)

\* a raster no stage needs to shrink and with an interior for the texture stage
PlainDims(img) ==
    /\ img.h >= 3 /\ img.w >= 3
    /\ img.h <= LbpMaxDim /\ img.w <= LbpMaxDim

AllZeroHu(hu) == Len(hu) = NumHu /\ \A k \in 1..Len(hu) : hu[k] = HuZero

\* C1: a decodable image in which no external contour is found makes
\* calculate_ballistic_features return a record with seven zero Hu moments and
\* contour_area = contour_len = 0, not an error.
C1_BlankImageReturnsZeroShape ==
    (Done("calculate") /\ BytesDecodable(image) /\ ~image.contours /\ PlainDims(image))
        => /\ ~resp.raised
           /\ AllZeroHu(resp.features.hu_moments)
           /\ resp.features.contour_area = 0
           /\ resp.features.contour_len = 0

\* C2: a payload above 20 MB is rejected before any decoder is tried, at the
\* endpoint (uploaded bytes) and in extract_features (file path) alike; a payload
\* of at most 20 MB is not rejected by the size guard.
C2_OversizeRejectedBeforeDecode ==
    /\ (Done("endpoint") /\ req.form.hasImage)
          => /\ req.form.size > SizeLimit
                   => resp.status = 413 /\ resp.trace.decoders = <<>>
             /\ req.form.size <= SizeLimit => resp.status # 413
    /\ (/\ Done("extract_features") /\ req.path.exists
        /\ req.path.fileSize > SizeLimit
        /\ image.codec = "generic" /\ image.contours /\ PlainDims(image))
          => resp.raised /\ resp.trace.decoders = <<>>

\* C3: on every failure path of the endpoint and of the command line the output
\* is an object whose only key is error, with a non-200 status / non-zero exit
\* code; a 200 response / exit code 0 carries no error key.
C3_ErrorOutputNeverMixed ==
    /\ Done("endpoint")
          => /\ (\/ ~req.form.hasImage
                 \/ TooLarge(req.form.size)
                 \/ CalculateBallisticFeatures(image).raised
                 \/ resp.status # 200)
                   => resp.status # 200 /\ DOMAIN resp.body = {"error"}
             /\ resp.status = 200
                   => "error" \notin DOMAIN resp.body /\ resp.body.status = "success"
    /\ Done("cli")
          => /\ (ExtractFeatures(req.path, image).raised \/ resp.exit # 0)
                   => resp.exit # 0 /\ DOMAIN resp.body = {"error"}
             /\ resp.exit = 0 => "error" \notin DOMAIN resp.body

C3_Witness ==
    /\ Done("cli") /\ req.path.exists /\ resp.exit = 1
    /\ resp.body = ErrorBody("FeatureExtractionError")
    /\ resp.trace.stages # <<>>

\* C4: bytes no decoder parses make calculate_ballistic_features raise
\* FeatureExtractionError; no stage runs and no record, partial or not, comes back.
C4_UndecodableBytesRaise ==
    (Done("calculate") /\ ~BytesDecodable(image))
        => /\ resp.raised
           /\ resp.exc = "FeatureExtractionError"
           /\ resp.features = NoFeatures
           /\ resp.trace.stages = <<>>

C4_Witness ==
    /\ Done("calculate") /\ image.codec = "none" /\ resp.raised
    /\ resp.trace.decoders = <<"imdecode", "rawpy">>

\* the detector's own downscale fails, or a library call inside it throws
FiringPinFails(gray, img) ==
    Downscale(gray[1], gray[2], FiringPinMaxDim).raises \/ img.fpFault

StriationFails(gray, img) ==
    Downscale(gray[1], gray[2], StriationMaxDim).raises \/ img.stFault

\* C5: when a detector fails internally in a call of
\* calculate_ballistic_features it yields its all-zero record and the call still
\* returns a record with the other stages' results.
C5_DetectorFaultStillSucceeds ==
    (/\ Done("calculate")
     /\ "striation" \in { resp.trace.stages[k] : k \in 1..Len(resp.trace.stages) }
     /\ \/ FiringPinFails(resp.trace.gray, image)
        \/ StriationFails(resp.trace.gray, image))
        => /\ ~resp.raised
           /\ FiringPinFails(resp.trace.gray, image)
                 => resp.features.firing_pin_marks = FiringPinZero
           /\ StriationFails(resp.trace.gray, image)
                 => resp.features.striation_patterns = StriationZero

\* C6: for every decoded raster calculate_ballistic_features returns a record
\* whose hu_moments has exactly 7 entries, all finite.
C6_HuMomentsSevenFinite ==
    (Done("calculate") /\ BytesDecodable(image) /\ PlainDims(image))
        => /\ ~resp.raised
           /\ Len(resp.features.hu_moments) = NumHu
           /\ \A k \in 1..NumHu : resp.features.hu_moments[k].finite

\* C7: calculate_ballistic_features on a decodable flat image (all black, for
\* one) raises FeatureExtractionError.
C7_FlatImageRaises ==
    (Done("calculate") /\ BytesDecodable(image) /\ image.flat)
        => resp.raised /\ resp.exc = "FeatureExtractionError"

C7_Witness ==
    /\ Done("calculate") /\ image.codec = "generic" /\ image.flat
    /\ image.h = 100 /\ image.w = 100
    /\ resp.raised
    /\ resp.trace.stages[Len(resp.trace.stages)] = "aggregate"

StagesRan == Done("calculate") /\ Len(resp.trace.stages) > 1

\* C8: the raster handed to the analysis stages has both sides at most 10000,
\* and is the decoded raster's own size when that already had both sides at most
\* 10000.
C8_NormalizedWithinLimit ==
    StagesRan
        => /\ resp.trace.gray[1] <= GlobalMaxDim
           /\ resp.trace.gray[2] <= GlobalMaxDim
           /\ (image.h <= GlobalMaxDim /\ image.w <= GlobalMaxDim)
                 => resp.trace.gray = <<image.h, image.w>> /\ ~resp.trace.resized
           /\ (image.h > GlobalMaxDim \/ image.w > GlobalMaxDim)
                 => resp.trace.resized

C8_Witness ==
    /\ StagesRan /\ resp.trace.resized
    /\ image.h = 12000 /\ image.w = 20000
    /\ resp.trace.gray = <<6000, 10000>>

\* C9: when global normalization downsamples, the scale factor is carried in,
\* or alongside, what calculate_ballistic_features returns.
C9_ScaleFactorRecorded ==
    (Done("calculate") /\ ~resp.raised /\ resp.trace.resized)
        => \/ "scale_factor" \in DOMAIN resp.features
           \/ "scale_factor" \in (DOMAIN resp \ {"trace"})

\* the scale detect_firing_pin_marks applies to a raster <<h, w>>
AppliedPinScale(h, w) ==
    IF h > FiringPinMaxDim \/ w > FiringPinMaxDim
    THEN Rat(FiringPinMaxDim, Max(h, w)) ELSE <<1, 1>>

PinDetectionRan ==
    /\ Done("firing_pin")
    /\ ~FiringPinFails(<<image.h, image.w>>, image)
    /\ image.circles # <<>>

\* C10: every reported mark position, and the average radius, is the detected
\* value divided by the scale the detector applied (so position * scale is the
\* detected position); with no downscale they are the detected values.
C10_MarksScaledBack ==
    PinDetectionRan
        => LET f == resp.result
               sc == AppliedPinScale(image.h, image.w)
               n == Len(image.circles)
           IN  /\ f.num_circular_marks = n
               /\ Len(f.mark_positions) = n
               /\ \A k \in 1..n :
                     /\ RatMul(f.mark_positions[k][1], sc) = <<image.circles[k].x, 1>>
                     /\ RatMul(f.mark_positions[k][2], sc) = <<image.circles[k].y, 1>>
               /\ RatMul(f.avg_mark_radius, sc)
                     = Rat(SumSeq([k \in 1..n |-> image.circles[k].r]), n)
               /\ sc = <<1, 1>>
                     => \A k \in 1..n :
                           f.mark_positions[k]
                              = << <<image.circles[k].x, 1>>, <<image.circles[k].y, 1>> >>

C10_Witness ==
    /\ PinDetectionRan
    /\ image.h = 3000 /\ image.w = 2000
    /\ resp.result.num_circular_marks = 2
    /\ resp.result.mark_positions[1] = << <<60, 1>>, <<45, 1>> >>

C14_AdaptersEmitSamePayload ==
    (/\ Done("cli") /\ image.codec = "generic"
     /\ req.path.exists /\ req.path.fileSize <= SizeLimit)
        => LET ep == ExtractFeaturesEndpoint(
                         [hasImage |-> TRUE, size |-> req.path.fileSize], image)
               fp == ep.body.firing_pin_marks
               st == ep.body.striation_patterns
               cfp == resp.body.firing_pin_marks
           IN  /\ (resp.exit = 0) <=> (ep.status = 200)
               /\ resp.exit = 0
                     => /\ resp.body.hu_moments = ep.body.hu_moments
                        /\ resp.body.contour_area = ep.body.contour_area
                        /\ resp.body.contour_len = ep.body.contour_len
                        /\ resp.body.lbp_uniformity = ep.body.lbp_uniformity
                        /\ Len(cfp) = fp.num_circular_marks
                        /\ \A k \in 1..Len(cfp) :
                              /\ <<cfp[k].x, cfp[k].y>> = fp.mark_positions[k]
                              /\ cfp[k].radius = fp.avg_mark_radius
                              /\ "intensity" \in DOMAIN cfp[k]
                        /\ st.num_striation_lines > 0
                              => resp.body.striation_patterns # <<>>

\* 1 generic raster codec, 2 container-specific fallback, 3 sensor-format decoder
DecoderClass(d) ==
    CASE d \in {"imdecode", "imread"} -> 1
      [] d = "PIL"                    -> 2
      [] d = "rawpy"                  -> 3

IsPrefix(s, t) == Len(s) <= Len(t) /\ s = SubSeq(t, 1, Len(s))

\* the call ended in its decoding step
DecodeError == resp.raised /\ resp.trace.stages = <<>>

\* the decoders tried on the caller's input (extract_features hands its raster
\* on as PNG bytes, which imdecode then reads)
TriedOnInput ==
    IF req.op = "extract_features"
    THEN SelectSeq(resp.trace.decoders, LAMBDA d : d # "imdecode")
    ELSE resp.trace.decoders

\* C15 as stated: on byte and on path input the decoders tried are an initial
\* part of generic, container-specific, sensor-format, and a decode error comes
\* only after all the available ones were tried.
C15_FixedDecoderOrder ==
    (Done("calculate") \/ (Done("extract_features") /\ req.path.exists))
        => LET classes == [k \in 1..Len(TriedOnInput) |-> DecoderClass(TriedOnInput[k])]
           IN  /\ IsPrefix(classes, <<1, 2, 3>>)
               /\ DecodeError
                     => classes = IF image.rawpyInstalled THEN <<1, 2, 3>> ELSE <<1, 2>>

\* the one fallback extract_features selects for an extension
PathFallback(ext) ==
    IF ext \in TiffExts THEN <<"PIL">> ELSE IF ext \in RawExts THEN <<"rawpy">> ELSE <<>>

\* C15, amended: the generic codec is tried first and a fallback only when it
\* returned nothing.  On byte input the fallback is rawpy alone, and an empty
\* buffer fails in the generic codec with no fallback.  On path input it is the
\* one decoder the extension selects (PIL, rawpy or none).  The decode error is
\* raised exactly when the generic codec and the selected fallback failed.
C15_FallbackByInputKind ==
    /\ Done("calculate")
          => /\ TriedOnInput = IF image.codec \in {"generic", "empty"}
                               THEN <<"imdecode">> ELSE <<"imdecode", "rawpy">>
             /\ DecodeError <=> ~BytesDecodable(image)
    /\ (Done("extract_features") /\ req.path.exists)
          => LET fb == PathFallback(req.path.ext)
                 readable == \/ image.codec = "generic"
                             \/ fb = <<"PIL">> /\ image.codec = "tiff_only"
                             \/ /\ fb = <<"rawpy">> /\ image.codec = "raw_only"
                                /\ image.rawpyInstalled
             IN  /\ TriedOnInput = IF image.codec = "generic"
                                   THEN <<"imread">> ELSE <<"imread">> \o fb
                 /\ DecodeError <=> ~readable

C15_Witness ==
    /\ Done("extract_features") /\ req.path.ext = ".tif"
    /\ image.codec = "raw_only" /\ image.rawpyInstalled
    /\ resp.trace.decoders = <<"imread", "PIL">>
    /\ resp.raised

\* the file holds nothing a decoder reads as an image
NotAnImage(img) == img.codec \in {"none", "empty"}

\* C16: extract_features on a path that does not exist, or on a file that is
\* not an image, raises FeatureExtractionError and returns no record.
C16_BadPathRaises ==
    (Done("extract_features") /\ (~req.path.exists \/ NotAnImage(image)))
        => /\ resp.raised
           /\ resp.exc = "FeatureExtractionError"
           /\ resp.features = NoFeatures

C16_Witness ==
    /\ Done("extract_features") /\ req.path.exists /\ req.path.ext = ".txt"
    /\ image.codec = "none"
    /\ resp.raised /\ resp.exc = "FeatureExtractionError"
    /\ resp.trace.decoders = <<"imread">>

\* the scale detect_striation_patterns applies to a raster <<h, w>>
AppliedStriationScale(h, w) ==
    IF h > StriationMaxDim \/ w > StriationMaxDim
    THEN Rat(StriationMaxDim, Max(h, w)) ELSE <<1, 1>>

StriationRan ==
    /\ Done("striation")
    /\ ~StriationFails(<<image.h, image.w>>, image)
    /\ image.lines # <<>>

\* C11: with segments found, avg_line_length is the mean detected length divided
\* by the scale the detector applied (a length in pixels of the raster passed
\* in) and striation_density is the number of segments per 10000 px^2 of the
\* raster passed in.
C11_StriationGeometryScaledBack ==
    StriationRan
        => LET f  == resp.result
               sc == AppliedStriationScale(image.h, image.w)
               n  == Len(image.lines)
           IN  /\ RatMul(f.avg_line_length, sc)
                     = Rat(SumSeq([k \in 1..n |-> SegLength(image.lines[k])]), n)
               /\ f.striation_density = Rat(n * 10000, image.h * image.w)

\* score = 1 / (1 + variance / 100) for the population variance of the angles
\* a, (k * sum(a^2) - sum(a)^2) / k^2, as an equation between integers
IsParallelismOf(score, a) ==
    LET k  == Len(a)
        s1 == SumSeq(a)
        s2 == SumSeq([j \in 1..k |-> a[j] * a[j]])
    IN  score[1] * (100 * k * k + (k * s2 - s1 * s1)) = score[2] * 100 * k * k

InUnitInterval(x) == 0 <= x[1] /\ x[1] <= x[2]

DetectedAngles == [k \in 1..Len(image.lines) |-> SegAngle(image.lines[k])]

\* C17 as stated: with at least one segment, parallelism_score is
\* 1 / (1 + variance(angles) / 100), lies in [0, 1], and is 1 when all the
\* segments, be it a single one, have the same angle.
C17_ParallelismFormula ==
    StriationRan
        => /\ IsParallelismOf(resp.result.parallelism_score, DetectedAngles)
           /\ InUnitInterval(resp.result.parallelism_score)
           /\ (\A k \in 1..Len(DetectedAngles) : DetectedAngles[k] = DetectedAngles[1])
                 => resp.result.parallelism_score = <<1, 1>>

\* C17, amended: with at least two segments parallelism_score is
\* 1 / (1 + variance(angles) / 100), lies in (0, 1], and is 1 when all the
\* segments have the same angle; with exactly one segment it is 0.
C17_ParallelismFromTwoSegments ==
    StriationRan
        => LET score == resp.result.parallelism_score
           IN  /\ Len(image.lines) >= 2
                     => /\ IsParallelismOf(score, DetectedAngles)
                        /\ InUnitInterval(score) /\ score[1] > 0
                        /\ (\A k \in 1..Len(DetectedAngles) :
                                 DetectedAngles[k] = DetectedAngles[1])
                              => score = <<1, 1>>
               /\ Len(image.lines) = 1 => score = RatZero

C17_Witness ==
    /\ StriationRan
    /\ DetectedAngles = <<0, 0, 90>>
    /\ resp.result.parallelism_score = <<1, 19>>

\* C18: every record calculate_ballistic_features returns has lbp_uniformity in
\* [0, 1], and a decodable flat image, all of whose interior pixels have one LBP
\* code, yields a record with lbp_uniformity = 1.
C18_LbpUniformityRange ==
    Done("calculate")
        => /\ ~resp.raised => InUnitInterval(resp.features.lbp_uniformity)
           /\ (BytesDecodable(image) /\ image.flat /\ PlainDims(image))
                 => /\ ~resp.raised
                    /\ resp.features.lbp_uniformity = <<1, 1>>

\* the detector ran to its return statement
StriationReturned == Done("striation") /\ ~StriationFails(<<image.h, image.w>>, image)

\* C19: every folded gradient direction d has 0 <= d < 180 degrees, and two
\* gradient directions that differ by exactly 180 degrees fold to the same
\* value and are counted in the same histogram bin.
C19_DirectionFoldedHalfOpen ==
    StriationReturned
        => LET g == image.grads
               d == resp.direction
           IN  /\ \A k \in 1..Len(d) : 0 <= d[k] /\ d[k] < 180
               /\ \A j \in 1..Len(g) : \A k \in 1..Len(g) :
                     g[j].deg - g[k].deg = 180
                        => d[j] = d[k] /\ DirBin(d[j]) = DirBin(d[k])

\* C20: when the detector returns normally, with or without segments,
\* dominant_directions lists in ascending order the centers 10 * (i - 1) + 5
\* of exactly the bins i of the 18-bin histogram whose count is more than 30%
\* of the largest count; the record of a failed detector has none.
C20_DominantDirections ==
    /\ StriationReturned
          => LET dd   == resp.result.dominant_directions
                 hist == resp.hist
                 peak == MaxSeq(hist)
             IN  /\ Len(hist) = NumDirBins
                 /\ \A i \in 1..NumDirBins :
                       (\E k \in 1..Len(dd) : dd[k] = 10 * (i - 1) + 5)
                          <=> 10 * hist[i] > 3 * peak
                 /\ \A k \in 1..Len(dd) :
                       /\ \E i \in 1..NumDirBins : dd[k] = 10 * (i - 1) + 5
                       /\ k > 1 => dd[k - 1] < dd[k]
    /\ (Done("striation") /\ StriationFails(<<image.h, image.w>>, image))
          => resp.result.dominant_directions = <<>>

C20_Witness ==
    /\ StriationReturned
    /\ image.lines = <<>>
    /\ resp.hist[1] = 10 /\ resp.hist[5] = 3 /\ resp.hist[10] = 4 /\ resp.hist[14] = 1
    /\ resp.result.dominant_directions = <<5, 95>>

\* the three counts of a firing-pin record agree, and the record is the empty
\* one exactly when the count is 0
MarksConsistent(f) ==
    /\ f.num_circular_marks = Len(f.mark_positions)
    /\ f.num_circular_marks = Len(f.mark_intensities)
    /\ f.num_circular_marks = 0
          <=> /\ f.avg_mark_radius = RatZero
              /\ f.mark_positions = <<>> /\ f.mark_intensities = <<>>

\* C21: in every result of detect_firing_pin_marks, returned to a direct caller
\* or inside a pipeline record, num_circular_marks is the length of
\* mark_positions and of mark_intensities, and it is 0 exactly when
\* avg_mark_radius is 0 and both lists are empty; with marks, avg_mark_radius
\* times their number is the sum of the radii divided by the applied scale.
C21_MarksRecordConsistent ==
    /\ Done("firing_pin")
          => LET f  == resp.result
                 sc == AppliedPinScale(image.h, image.w)
                 n  == f.num_circular_marks
             IN  /\ MarksConsistent(f)
                 /\ n > 0
                       => /\ n = Len(image.circles)
                          /\ RatMul(f.avg_mark_radius, <<n, 1>>)
                                = RatSum([k \in 1..n |->
                                            Rat(image.circles[k].r * sc[2], sc[1])])
    /\ (Done("calculate") /\ ~resp.raised)
          => MarksConsistent(resp.features.firing_pin_marks)

C21_Witness ==
    /\ Done("firing_pin")
    /\ image.h = 3000 /\ image.w = 2000
    /\ resp.result.num_circular_marks = 2
    /\ Len(resp.result.mark_intensities) = 2
    /\ resp.result.avg_mark_radius = <<39, 4>>

\* the target size the downscale at threshold T computes for a raster h x w has
\* both sides in 1..T
TargetWithin(h, w, T) ==
    LET ds == Downscale(h, w, T)
    IN  /\ ds.h >= 1 /\ ds.w >= 1
        /\ ds.h <= T /\ ds.w <= T
        /\ ~ds.raises

\* C22: for a raster with both sides at least 1, each downscale computes a
\* target with both sides between 1 and its threshold, so that a direct call of
\* a detector does not fall into its zero record, and a call of
\* calculate_ballistic_features on a raster with a contour and an interior does
\* not raise, on account of the resize.
C22_DownscaleKeepsBothSides ==
    /\ Done("firing_pin")
          => TargetWithin(image.h, image.w, FiringPinMaxDim)
    /\ Done("striation")
          => /\ TargetWithin(image.h, image.w, StriationMaxDim)
             /\ ~image.stFault => resp.result.dominant_directions # <<>>
    /\ (/\ Done("calculate") /\ BytesDecodable(image)
        /\ image.contours /\ image.h >= 3 /\ image.w >= 3)
          => /\ TargetWithin(image.h, image.w, GlobalMaxDim)
             /\ ~resp.raised
             /\ TargetWithin(resp.trace.gray[1], resp.trace.gray[2], LbpMaxDim)

\* C23: a run in which monitoring was started does not end before
\* stop_monitoring has returned, whether or not a test raised; from the return
\* of stop_monitoring on the monitor thread has ended and cpu_usage and
\* memory_usage keep the lengths they had then, and what get_stats read is
\* those final lists.
C23_MonitorStoppedBeforeEnd ==
    /\ (perf.main = "ended" /\ perf.started) => perf.stopped
    /\ perf.stopped
          => /\ perf.thread = "terminated"
             /\ <<perf.cpu, perf.mem>> = perf.atStop
    /\ perf.stats # NoStats
          => perf.stopped /\ perf.stats = perf.atStop

C23_Witness ==
    /\ perf.main = "ended" /\ perf.started /\ perf.raised
    /\ perf.stopped /\ perf.thread = "terminated"
    /\ perf.cpu = 2 /\ perf.mem = 2
    /\ perf.stats = <<2, 2>>

=============================================================================
